---- MODULE Spec2Model ----
(***************************************************************************)
(* Model of mozbench.py: the benchmark driver cli(), the trial engine      *)
(* runtest(), the postback handler results_handler() running on the web    *)
(* server's threads, the publisher postresults(), and the runners.         *)
(*                                                                         *)
(* The two module globals `headers` and `results` are the result channel.  *)
(* Every line of runtest and cli that reads or writes one of them is an    *)
(* action of its own, so that the handler's two writes (lines 74 and 75)   *)
(* interleave with the driver exactly where the interpreter can switch     *)
(* threads.                                                                *)
(***************************************************************************)
EXTENDS Integers, Sequences, FiniteSets, TLC

\* ---------------------------------------------------------------- bounds
MaxBench == 2     \* length of benchmarks.json
MaxRuns  == 2     \* largest number_of_runs of a benchmark
MaxRecs  == 1     \* largest number of records in one posted payload
MaxTotal == 2     \* most trials of a whole run, over both browser targets
MaxStale == 1     \* pages of earlier trials that can still post when a trial begins

Keys == {"a", "b"}            \* values the grouping field result[name] takes

\* ---------------------------------------------------------------- values
None == [kind |-> "None"]

IntVal(n) == [kind |-> "int", n |-> n]

IsNone(x) == x.kind = "None"

\* The j-th record posted by page p reports the measurement 10*p + j, so that
\* a dropped, duplicated, reordered or misattributed value is observable.
Measure(p, j) == 10 * p + j

PageOf(v) == v \div 10

\* The request body request.POST['results']: JSON text of an array of
\* records, here the sequence of (name, value) pairs it spells.
Bodies(p) ==
    UNION { { [j \in 1..n |-> [name |-> ks[j], value |-> Measure(p, j)]]
              : ks \in [1..n -> Keys] } : n \in 0..MaxRecs }

\* json.loads: builds a fresh list object holding one fresh dict object per
\* array element.  oid is the identity of an object on the heap.
json_loads(p, body) ==
    [kind |-> "list",
     oid  |-> <<"post", p>>,
     recs |-> [j \in 1..Len(body) |->
                 [oid |-> <<p, j>>, name |-> body[j].name, value |-> body[j].value]]]

\* Request bodies that are not a JSON array of records with the benchmark's
\* fields: text that is not JSON, the JSON null, a JSON object, and an array
\* whose record lacks the `name` field.
Malformed == {"not json", "null", "object", "no name"}

\* json.loads of such a body: ValueError for text that is not JSON, else the
\* value the text spells.
json_loads_other(p, text) ==
    CASE text = "not json" -> [kind |-> "ValueError"]
      [] text = "null"     -> None
      [] text = "object"   -> [kind |-> "dict", oid |-> <<"post", p>>]
      [] text = "no name"  ->
            [kind |-> "list",
             oid  |-> <<"post", p>>,
             recs |-> << [oid |-> <<p, 1>>, value |-> Measure(p, 1)] >>]

\* copy.copy of a list (or dict): a new object holding the same element
\* objects.
copy_copy(n, lst) == [lst EXCEPT !.oid = <<"copy", n>>]

\* Python truth value of `results`: None and the empty list are false, a
\* non-empty list or dict is true.
Truthy(x) == /\ ~IsNone(x)
             /\ x.kind = "list" => Len(x.recs) > 0

\* `for result in results` with result[name] and result[value] goes through:
\* results is a list and each element has both fields.  Iterating None
\* raises TypeError, a dict yields its keys (strings, whose subscript by a
\* field name raises TypeError), a missing field raises KeyError.
Iterates(x) ==
    /\ x.kind = "list"
    /\ \A j \in DOMAIN x.recs : {"name", "value"} \subseteq DOMAIN x.recs[j]

\* The by-value content of a result list: the records without identities.
Contents(lst) == [j \in 1..Len(lst.recs) |->
                    [name |-> lst.recs[j].name, value |-> lst.recs[j].value]]

\* ------------------------------------------------------------ user agents
\* A string is the sequence of its characters.
\* "Gecko/20100101 Firefox/102.0"
UA_Firefox ==
    << "G", "e", "c", "k", "o", "/", "2", "0", "1", "0", "0", "1", "0", "1", " ", "F", "i", "r", "e", "f", "o", "x", "/", "1", "0", "2", ".", "0" >>
\* "Chrome/115.0.5790.170 Safari/537.36"
UA_Chrome ==
    << "C", "h", "r", "o", "m", "e", "/", "1", "1", "5", ".", "0", ".", "5", "7", "9", "0", ".", "1", "7", "0", " ", "S", "a", "f", "a", "r", "i", "/", "5", "3", "7", ".", "3", "6" >>
\* "FxiOS/102.0 Safari/605.1.15"
UA_Other ==
    << "F", "x", "i", "O", "S", "/", "1", "0", "2", ".", "0", " ", "S", "a", "f", "a", "r", "i", "/", "6", "0", "5", ".", "1", ".", "1", "5" >>

\* "Gecko/20100101 Firefox/102.0a1"
UA_Nightly ==
    << "G", "e", "c", "k", "o", "/", "2", "0", "1", "0", "0", "1", "0", "1", " ", "F", "i", "r", "e", "f", "o", "x", "/", "1", "0", "2", ".", "0", "a", "1" >>
\* "HeadlessChrome/115.0.5790.170 Safari/537.36"
UA_Headless ==
    << "H", "e", "a", "d", "l", "e", "s", "s", "C", "h", "r", "o", "m", "e", "/", "1", "1", "5", ".", "0", ".", "5", "7", "9", "0", ".", "1", "7", "0", " ", "S", "a", "f", "a", "r", "i", "/", "5", "3", "7", ".", "3", "6" >>

UserAgentOf(browser) == IF browser = "chrome" THEN UA_Chrome ELSE UA_Firefox

\* The user-agent header a page's request can carry: the launched browser's
\* own, one of a pre-release or headless build of it, or one with neither
\* a Firefox/ nor a Chrome/ token.
UserAgents(browser) ==
    {UserAgentOf(browser), UA_Other,
     IF browser = "chrome" THEN UA_Headless ELSE UA_Nightly}

\* The characters of [\d\.].
Digits == {"0", "1", "2", "3", "4", "5", "6", "7", "8", "9", "."}

\* The literal parts of the alternatives of the pattern of line 144, in the
\* order the pattern tries them.
Patterns == << << "F", "i", "r", "e", "f", "o", "x", "/" >>,
              << "C", "h", "r", "o", "m", "e", "/" >> >>

PatternsFirefoxOnly == << << "F", "i", "r", "e", "f", "o", "x", "/" >> >>

PatternsAnyToken == << << "/" >> >>

\* The text w stands in s at position k.
StartsWith(s, k, w) ==
    /\ k + Len(w) - 1 <= Len(s)
    /\ \A n \in 1..Len(w) : s[k + n - 1] = w[n]

\* The length of the greedy run of [\d\.] in s from position k.
RECURSIVE RunLength(_, _)
RunLength(s, k) ==
    IF k > Len(s) \/ s[k] \notin Digits THEN 0 ELSE 1 + RunLength(s, k + 1)

\* The text the pattern matches at position k of s, <<>> if it does not:
\* the first alternative whose literal stands there followed by at least
\* one character of [\d\.].
MatchAt(pats, s, k) ==
    LET ok == { n \in DOMAIN pats :
                  StartsWith(s, k, pats[n]) /\ RunLength(s, k + Len(pats[n])) > 0 }
    IN  IF ok = {} THEN <<>>
        ELSE LET n == CHOOSE n \in ok : \A m \in ok : n <= m
             IN  SubSeq(s, k, k + Len(pats[n]) + RunLength(s, k + Len(pats[n])) - 1)

\* re.search: the match at the leftmost position from k on, <<>> for no match.
RECURSIVE re_search(_, _, _)
re_search(pats, s, k) ==
    IF k > Len(s) THEN <<>>
    ELSE IF MatchAt(pats, s, k) # <<>> THEN MatchAt(pats, s, k)
         ELSE re_search(pats, s, k + 1)

\* g.split('/')[1]: the text between the first slash of g and the next slash
\* or the end.
split1(g) ==
    LET a == CHOOSE n \in DOMAIN g : g[n] = "/" /\ \A m \in 1..(n - 1) : g[m] # "/"
        rest == SubSeq(g, a + 1, Len(g))
        ends == { n \in DOMAIN rest : rest[n] = "/" }
    IN  IF ends = {} THEN rest
        ELSE SubSeq(rest, 1, (CHOOSE n \in ends : \A m \in ends : n <= m) - 1)

\* Lines 143-146 with another pattern.
VersionBy(pats, ua) ==
    LET g == re_search(pats, ua, 1)
    IN  IF g = <<>> THEN None ELSE [kind |-> "str", s |-> split1(g)]

ExtractVersionFirefoxOnly(ua) == VersionBy(PatternsFirefoxOnly, ua)

ExtractVersionAnyToken(ua) == VersionBy(PatternsAnyToken, ua)

\* Lines 143-146: re.search('(Firefox/[\d\.]+|Chrome/[\d\.]+)', user_agent)
\* followed by m.groups()[0].split('/')[1].
ExtractVersion(ua) == VersionBy(Patterns, ua)

\* ------------------------------------------------------------- aggregate
\* DatazillaResult after add_testsuite(suite): no test has any value.
NewDzres(suite) == [kind |-> "dzres", suite |-> suite, tests |-> [k \in Keys |-> <<>>]]

\* dzres.add_test_results(suite, result[name], [result[value]])
add_test_results(dz, k, v) ==
    [dz EXCEPT !.tests[k] = Append(@, v)]

\* for result in results: dzres.add_test_results(...)
RECURSIVE FoldResults(_, _)
FoldResults(dz, recs) ==
    IF recs = <<>> THEN dz
    ELSE FoldResults(add_test_results(dz, Head(recs).name, Head(recs).value), Tail(recs))

\* ------------------------------------------------------------------ state
VARIABLES
    args,        \* parsed command line
    benchmarks,  \* benchmarks.json
    headers,     \* global headers
    results,     \* global results
    pc,          \* line of cli / runtest the driver thread is at
    bidx,        \* position of `benchmark` in benchmarks
    browser,     \* which of the two trial loops of cli is running
    i,           \* loop variable of the trial loop
    version,     \* cli's local `version`
    error,       \* cli's local `error`
    dzres,       \* cli's local `dzres`
    runner,      \* the runner passed to runtest
    rt,          \* runtest's locals and return value
    pages,       \* the benchmark pages launched so far
    exit,        \* the value cli returned
    crash,       \* where an uncaught exception left cli
    obs          \* history: what was called, delivered and returned

vars == <<args, benchmarks, headers, results, pc, bidx, browser, i, version,
          error, dzres, runner, rt, pages, exit, crash, obs>>

NoRunner == [kind |-> "none", page |-> 0, calls |-> <<>>]
NoRt     == [timedout |-> FALSE, version |-> None, ret |-> None,
             user_agent |-> <<>>,   \* runtest's local user_agent
             hdrpage |-> 0,         \* page whose request's headers line 142 read
             respage |-> 0]         \* page whose results line 148 copied

ZeroCount == [b \in 1..MaxBench |-> [firefox |-> 0, chrome |-> 0]]

\* History of the current trial (reset by runtest's line 129).
NoTrialObs == [inwin |-> FALSE,       \* line 75 ran before the wait ended
               pre140 |-> FALSE,      \* line 75 ran before the test of line 140
               lastinwin |-> FALSE,   \* the last run of line 75 was in the wait
               last |-> <<>>,         \* body of the last postback stored
               malformed |-> "",      \* ... or which malformed body it was
               lastpage |-> 0]        \* page that posted it, 0 if none did

\* Where runtest is while it waits for a result (after the reset), and where
\* it is before line 140 has tested the channel.
InWait == {"r130", "r133"}
Before140 == {"r130", "r133", "r137", "r138", "r140"}

Benchmark == benchmarks[bidx]

\* Lines 245-254: the trials one browser target runs over the whole list,
\* a disabled benchmark running none.
RECURSIVE TotalRuns(_)
TotalRuns(bs) ==
    IF bs = <<>> THEN 0
    ELSE (IF Head(bs).enabled THEN Head(bs).number_of_runs ELSE 0) + TotalRuns(Tail(bs))

\* Lines 254 and 275-278: the trials of a whole run, firefox's and, with a
\* chrome path, as many of chrome.
Trials(a, bs) == TotalRuns(bs) * (IF a.chrome_path THEN 2 ELSE 1)

BenchmarkLists ==
    UNION { [1..n -> [number_of_runs : 1..MaxRuns, enabled : BOOLEAN]]
              : n \in 1..MaxBench }

\* The command lines: each of the four options given or not.
ArgSets ==
    [use_marionette : BOOLEAN, firefox_url : BOOLEAN,
     chrome_path : BOOLEAN, post_results : BOOLEAN]

Init ==
    /\ args \in ArgSets
    /\ benchmarks \in BenchmarkLists
    /\ Trials(args, benchmarks) <= MaxTotal
    /\ headers = None
    /\ results = None
    /\ pc = "c212"
    /\ bidx = 0
    /\ browser = "firefox"
    /\ i = 0
    /\ version = None
    /\ error = FALSE
    /\ dzres = None
    /\ runner = NoRunner
    /\ rt = NoRt
    /\ pages = <<>>
    /\ exit = None
    /\ crash = "none"
    /\ obs = [calls |-> ZeroCount, runners |-> ZeroCount, aggs |-> ZeroCount,
              pubs |-> ZeroCount, absent |-> FALSE, timedout |-> {},
              expected |-> None, trial |-> NoTrialObs,
              outcomes |-> ZeroCount,   \* returns of runtest
              versions |-> {},          \* versions the pair's trials returned
              open |-> 0,               \* runners started and not yet waited on
              order |-> <<>>]           \* the pairs in the order they began


\* --------------------------------------------------------------- runners
\* cli lines 257-261 and 282: which runner class a trial gets.
RunnerKind(a, br) ==
    IF br = "chrome" THEN "ChromeRunner"
    ELSE IF a.use_marionette THEN "MarionetteRunner" ELSE "FirefoxRunner"

\* The runner after a call of its method m (start, stop or wait).
Called(r, m) == [r EXCEPT !.calls = Append(@, m)]

\* MarionetteRunner.start navigates the device's browser to the benchmark
\* url: the page the device was showing is unloaded.  A local runner spawns
\* a new browser process.  A request the old page had already sent is still
\* served by the handler.
PagesAfterStart(kind, ps) ==
    IF kind = "MarionetteRunner"
    THEN [q \in DOMAIN ps |->
            IF ps[q].kind = "MarionetteRunner" /\ ps[q].state = "running"
            THEN [ps[q] EXCEPT !.state = "gone"] ELSE ps[q]]
    ELSE ps

\* runner.stop(): a local runner terminates its browser process, and with it
\* a page that has not posted yet; MarionetteRunner.stop is `pass`.
PagesAfterStop(r, ps) ==
    IF r.kind = "MarionetteRunner" THEN ps
    ELSE [q \in DOMAIN ps |->
            IF q = r.page /\ ps[q].state = "running"
            THEN [ps[q] EXCEPT !.state = "gone"] ELSE ps[q]]

\* ------------------------------------------------------ results_handler
\* Line 74: headers = request.headers, for the request of page p.
Handler74(p) ==
    /\ pages[p].state = "running"
    /\ pages' = [pages EXCEPT ![p].state = "h74"]
    /\ \E ua \in UserAgents(pages[p].browser) :
         headers' = [kind |-> "headers", page |-> p, user_agent |-> ua]
    /\ UNCHANGED <<args, benchmarks, results, pc, bidx, browser, i, version,
                   error, dzres, runner, rt, exit, crash, obs>>

\* The history after line 75 stored the body of page p while the driver was
\* at line `at`.
Stored(o, at, p, body, text) ==
    [o EXCEPT !.trial =
        [inwin     |-> @.inwin \/ at \in InWait,
         pre140    |-> @.pre140 \/ at \in Before140,
         lastinwin |-> at \in InWait,
         last      |-> body,
         malformed |-> text,
         lastpage  |-> p]]

\* Line 75: results = json.loads(request.POST['results']).
Handler75(p) ==
    /\ pages[p].state = "h74"
    /\ pages' = [pages EXCEPT ![p].state = "gone"]
    /\ \/ \E body \in Bodies(p) :
            /\ results' = json_loads(p, body)
            /\ obs' = Stored(obs, pc, p, body, "")
       \/ \E text \in Malformed :
            IF json_loads_other(p, text).kind = "ValueError"
            THEN UNCHANGED <<results, obs>>      \* the handler's thread raises
            ELSE /\ results' = json_loads_other(p, text)
                 /\ obs' = Stored(obs, pc, p, <<>>, text)
    /\ UNCHANGED <<args, benchmarks, headers, pc, bidx, browser, i, version,
                   error, dzres, runner, rt, exit, crash>>

\* ---------------------------------------------------------------- runtest
\* Line 128: headers = None.
Runtest128 ==
    /\ pc = "r128"
    /\ headers' = None
    /\ pc' = "r129"
    /\ UNCHANGED <<args, benchmarks, results, bidx, browser, i, version, error,
                   dzres, runner, rt, pages, exit, crash, obs>>

\* Line 129: results = None.
Runtest129 ==
    /\ pc = "r129"
    /\ results' = None
    /\ pc' = "r130"
    /\ obs' = [obs EXCEPT !.trial = NoTrialObs]
    /\ UNCHANGED <<args, benchmarks, headers, bidx, browser, i, version, error,
                   dzres, runner, rt, pages, exit, crash>>

\* runner.start(): the browser is launched, or the spawn, the port forward
\* or the marionette session raises.
StartOutcomes == {"started", "raises"}

\* Line 130: runner.start().  Nothing catches what it raises.
Runtest130 ==
    /\ pc = "r130"
    /\ \E outcome \in StartOutcomes :
         IF outcome = "started"
         THEN /\ pages' = Append(PagesAfterStart(runner.kind, pages),
                                 [bench |-> bidx, browser |-> browser,
                                  kind |-> runner.kind, state |-> "running"])
              /\ runner' = Called([runner EXCEPT !.page = Len(pages) + 1], "start")
              /\ obs' = [obs EXCEPT !.open = @ + 1]
              /\ pc' = "r133"
              /\ UNCHANGED crash
         ELSE /\ pc' = "crashed"
              /\ crash' = "start"
              /\ UNCHANGED <<pages, runner, obs>>
    /\ UNCHANGED <<args, benchmarks, headers, results, bidx, browser, i, version,
                   error, dzres, rt, exit>>

\* Line 133: Wait(...).until(lambda: results is not None) returns.
WaitUntil ==
    /\ pc = "r133"
    /\ ~IsNone(results)
    /\ pc' = "r137"
    /\ UNCHANGED <<args, benchmarks, headers, results, bidx, browser, i, version,
                   error, dzres, runner, rt, pages, exit, crash, obs>>

\* Where runtest goes on after the except clause of lines 134-135: line 137,
\* outside the try.
AfterTimeoutMut == "r140"

AfterTimeout == "r137"

\* Lines 134-135: the timeout elapses with results still None; the
\* TimeoutException is caught and logged.
WaitTimeout ==
    /\ pc = "r133"
    /\ IsNone(results)
    /\ rt' = [rt EXCEPT !.timedout = TRUE]
    /\ pc' = AfterTimeout
    /\ UNCHANGED <<args, benchmarks, headers, results, bidx, browser, i, version,
                   error, dzres, runner, pages, exit, crash, obs>>

\* Line 137: runner.stop().
Runtest137 ==
    /\ pc = "r137"
    /\ pages' = PagesAfterStop(runner, pages)
    /\ runner' = Called(runner, "stop")
    /\ pc' = "r138"
    /\ UNCHANGED <<args, benchmarks, headers, results, bidx, browser, i, version,
                   error, dzres, rt, exit, crash, obs>>

\* Line 138: runner.wait().
Runtest138 ==
    /\ pc = "r138"
    /\ runner' = Called(runner, "wait")
    /\ obs' = [obs EXCEPT !.open = @ - 1]
    /\ pc' = "r140"
    /\ UNCHANGED <<args, benchmarks, headers, results, bidx, browser, i, version,
                   error, dzres, rt, pages, exit, crash>>

\* What runtest hands back at line 150, and the note the history keeps of it.
ReturnValue(r, n) == IF IsNone(r) THEN None ELSE copy_copy(n, r)

Returned(o, page, timedout, ret) ==
    [o EXCEPT !.absent = @ \/ IsNone(ret),
              !.timedout = IF timedout /\ IsNone(ret) THEN @ \cup {page} ELSE @,
              !.expected = IF Iterates(ret) THEN FoldResults(@, ret.recs) ELSE @]

\* ... with the count of outcomes of the pair and the versions that came
\* with results.
Outcome(o, b, br, ver, ret) ==
    [o EXCEPT !.outcomes[b][br] = @ + 1,
              !.versions = IF IsNone(ret) \/ IsNone(ver) THEN @ ELSE @ \cup {ver}]

\* Line 140: if results: ... else: return None, None (line 150).
Runtest140 ==
    /\ pc = "r140"
    /\ IF Truthy(results)
       THEN /\ pc' = "r142"
            /\ UNCHANGED <<rt, obs>>
       ELSE /\ rt' = [rt EXCEPT !.version = None, !.ret = None]
            /\ obs' = Outcome(Returned(obs, runner.page, rt.timedout, None),
                              bidx, browser, None, None)
            /\ pc' = "c262"
    /\ UNCHANGED <<args, benchmarks, headers, results, bidx, browser, i, version,
                   error, dzres, runner, pages, exit, crash>>

\* Lines 142-146: user_agent = headers['user-agent'] and the version search.
\* Subscripting None raises TypeError, which nothing catches.
Runtest142 ==
    /\ pc = "r142"
    /\ IF IsNone(headers)
       THEN /\ pc' = "crashed"
            /\ crash' = "runtest"
            /\ UNCHANGED rt
       ELSE /\ rt' = [rt EXCEPT !.user_agent = headers.user_agent,
                                 !.hdrpage = headers.page,
                                 !.version = ExtractVersion(headers.user_agent)]
            /\ pc' = "r148"
            /\ UNCHANGED crash
    /\ UNCHANGED <<args, benchmarks, headers, results, bidx, browser, i, version,
                   error, dzres, runner, pages, exit, obs>>

\* Line 148: return version, copy.copy(results).
Runtest148 ==
    /\ pc = "r148"
    /\ rt' = [rt EXCEPT !.ret = ReturnValue(results, runner.page),
                        !.respage = IF IsNone(results) THEN 0 ELSE results.oid[2]]
    /\ obs' = Outcome(Returned(obs, runner.page, rt.timedout,
                                ReturnValue(results, runner.page)),
                       bidx, browser, rt.version, ReturnValue(results, runner.page))
    /\ pc' = "c262"
    /\ UNCHANGED <<args, benchmarks, headers, results, bidx, browser, i, version,
                   error, dzres, runner, pages, exit, crash>>


\* -------------------------------------------------------------------- cli
Bump(count, b, br) == [count EXCEPT ![b][br] = @ + 1]

\* install_firefox (lines 102-121): the path of the binary, or None.
InstallOutcomes == {"installed", "failed"}

\* Lines 212-235: the launch mode check, the installation, the web server
\* and the benchmark list.
Setup ==
    /\ pc = "c212"
    /\ IF ~args.use_marionette /\ ~args.firefox_url
       THEN /\ exit' = IntVal(1)
            /\ pc' = "done"
       ELSE \E inst \in InstallOutcomes :
              IF args.firefox_url /\ inst = "failed"
              THEN /\ exit' = IntVal(1)
                   /\ pc' = "done"
              ELSE /\ pc' = "c237"
                   /\ UNCHANGED exit
    /\ UNCHANGED <<args, benchmarks, headers, results, bidx, browser, i, version,
                   error, dzres, runner, rt, pages, crash, obs>>

\* Line 245: the benchmark is passed over.
SkippedMut(benchmark) == FALSE

Skipped(benchmark) == ~benchmark.enabled

\* Lines 237-253: the next benchmark of the list; a disabled one is passed
\* over, an enabled one gets the firefox aggregate.
NextBenchmark ==
    /\ pc = "c237"
    /\ bidx < Len(benchmarks)
    /\ bidx' = bidx + 1
    /\ IF Skipped(benchmarks[bidx + 1])
       THEN /\ pc' = "c237"
            /\ UNCHANGED <<browser, i, dzres, obs>>
       ELSE /\ browser' = "firefox"
            /\ dzres' = NewDzres(bidx + 1)
            /\ i' = 0
            /\ obs' = [obs EXCEPT !.aggs = Bump(@, bidx + 1, "firefox"),
                                  !.order = Append(@, <<bidx + 1, "firefox">>),
                                  !.versions = {},
                                  !.timedout = {},
                                  !.expected = NewDzres(bidx + 1)]
            /\ pc' = "c254"
    /\ UNCHANGED <<args, benchmarks, headers, results, version, error, runner,
                   rt, pages, exit, crash>>

\* The pages that can still post.
Stale(ps) == Cardinality({q \in DOMAIN ps : ps[q].state # "gone"})

\* Line 298: return 0 if not error else 1.
ExitCode(err) == IF err THEN 1 ELSE 0

\* Lines 295-298: the list is exhausted.
Finish ==
    /\ pc = "c237"
    /\ bidx = Len(benchmarks)
    /\ exit' = IntVal(ExitCode(error))
    /\ pc' = "done"
    /\ UNCHANGED <<args, benchmarks, headers, results, bidx, browser, i, version,
                   error, dzres, runner, rt, pages, crash, obs>>

\* Lines 254-262 (firefox) and 280-283 (chrome): one more trial, whose runner
\* is constructed and handed to runtest, or the end of the trial loop.
TrialLoop ==
    /\ pc = "c254"
    /\ IF i < Benchmark.number_of_runs
       THEN /\ Stale(pages) <= MaxStale
            /\ runner' = [kind |-> RunnerKind(args, browser), page |-> 0,
                          calls |-> <<>>]
            /\ rt' = NoRt
            /\ obs' = [obs EXCEPT !.runners = Bump(@, bidx, browser),
                                  !.calls = Bump(@, bidx, browser)]
            /\ pc' = "r128"
       ELSE /\ pc' = "c271"
            /\ UNCHANGED <<runner, rt, obs>>
    /\ UNCHANGED <<args, benchmarks, headers, results, bidx, browser, i, version,
                   error, dzres, pages, exit, crash>>

\* Lines 262 and 283: version, results = runtest(...).  cli declares
\* `global results` (line 193): the second target is the channel itself.
Assign262 ==
    /\ pc = "c262"
    /\ version' = rt.version
    /\ results' = rt.ret
    /\ rt' = NoRt
    /\ pc' = "c263"
    /\ UNCHANGED <<args, benchmarks, headers, bidx, browser, i, error, dzres,
                   runner, pages, exit, crash, obs>>

\* Lines 263-265 and 284-286: if results is None: error = True.
Test263 ==
    /\ pc = "c263"
    /\ IF IsNone(results)
       THEN /\ error' = TRUE
            /\ i' = i + 1
            /\ pc' = "c254"
       ELSE /\ pc' = "c267"
            /\ UNCHANGED <<error, i>>
    /\ UNCHANGED <<args, benchmarks, headers, results, bidx, browser, version,
                   dzres, runner, rt, pages, exit, crash, obs>>

\* Lines 267-268 and 288-289: every record of `results` goes into dzres.
Fold267 ==
    /\ pc = "c267"
    /\ IF Iterates(results)
       THEN /\ dzres' = FoldResults(dzres, results.recs)
            /\ i' = i + 1
            /\ pc' = "c254"
            /\ UNCHANGED crash
       ELSE /\ pc' = "crashed"            \* TypeError or KeyError, uncaught
            /\ crash' = "fold"
            /\ UNCHANGED <<dzres, i>>
    /\ UNCHANGED <<args, benchmarks, headers, results, bidx, browser, version,
                   error, runner, rt, pages, exit, obs>>

\* postresults (lines 153-189).  The secrets file and the datazilla server
\* are outside the program.
SecretFile == {"missing", "present"}
Submit == {"accepted", "raises"}

\* How a call of postresults ends: it returns, or an exception leaves it.
postresults(secret, ver, submit) ==
    IF secret = "missing" THEN "returned"           \* lines 156-158
    ELSE IF IsNone(ver) THEN "TypeError"            \* line 176: version[:2]
    ELSE IF submit = "raises" THEN "raised"         \* line 184: req.submit()
    ELSE "returned"

\* Lines 271-272 and 292-293: if args.post_results: postresults(...).
\* cli has no try around the call.
Publish ==
    /\ pc = "c271"
    /\ IF args.post_results
       THEN /\ obs' = [obs EXCEPT !.pubs = Bump(@, bidx, browser)]
            /\ \E secret \in SecretFile, submit \in Submit :
                 IF postresults(secret, version, submit) = "returned"
                 THEN /\ pc' = "c275"
                      /\ UNCHANGED crash
                 ELSE /\ pc' = "crashed"
                      /\ crash' = "postresults"
       ELSE /\ pc' = "c275"
            /\ UNCHANGED <<crash, obs>>
    /\ UNCHANGED <<args, benchmarks, headers, results, bidx, browser, i, version,
                   error, dzres, runner, rt, pages, exit>>

\* Lines 275-279: after the firefox trials, the chrome loop if a chrome path
\* was given; after the chrome trials, the next benchmark.
NextBrowser ==
    /\ pc = "c275"
    /\ IF browser = "firefox" /\ args.chrome_path
       THEN /\ browser' = "chrome"
            /\ dzres' = NewDzres(bidx)
            /\ i' = 0
            /\ obs' = [obs EXCEPT !.aggs = Bump(@, bidx, "chrome"),
                                  !.order = Append(@, <<bidx, "chrome">>),
                                  !.versions = {},
                                  !.timedout = {},
                                  !.expected = NewDzres(bidx)]
            /\ pc' = "c254"
       ELSE /\ pc' = "c237"
            /\ UNCHANGED <<browser, dzres, i, obs>>
    /\ UNCHANGED <<args, benchmarks, headers, results, bidx, version, error,
                   runner, rt, pages, exit, crash>>

\* The web server runs results_handler for the request of some page.
results_handler74 == \E p \in DOMAIN pages : Handler74(p)

results_handler75 == \E p \in DOMAIN pages : Handler75(p)

Next ==
    \/ Setup
    \/ NextBenchmark
    \/ Finish
    \/ TrialLoop
    \/ Runtest128
    \/ Runtest129
    \/ Runtest130
    \/ WaitUntil
    \/ WaitTimeout
    \/ Runtest137
    \/ Runtest138
    \/ Runtest140
    \/ Runtest142
    \/ Runtest148
    \/ Assign262
    \/ Test263
    \/ Fold267
    \/ Publish
    \/ NextBrowser
    \/ results_handler74
    \/ results_handler75

Spec == Init /\ [][Next]_vars


\* ------------------------------------------------------------ properties
\* The driver is at the return of runtest (the value is computed, cli has
\* not stored it yet).
AtReturn == pc = "c262"

\* An uncaught exception left runtest.
RuntestRaised == pc = "crashed" /\ crash = "runtest"

\* Every measurement in the aggregate.
Folded(dz) == UNION { { dz.tests[k][n] : n \in DOMAIN dz.tests[k] } : k \in Keys }

\* C1: a postback carrying a JSON array (of any length, the empty array
\* included) that results_handler stores after the reset and before the wait
\* ends is what runtest returns, equal by value.
C1_ReturnsPostedPayload ==
    (AtReturn /\ obs.trial.lastpage # 0 /\ obs.trial.lastinwin
              /\ obs.trial.malformed = "")
        => (~IsNone(rt.ret) /\ Contents(rt.ret) = obs.trial.last)

\* C2: with no postback stored between the reset and the expiry of
\* the timeout, runtest does not raise, logs the timeout, stops and waits on
\* the runner and returns (None, None).
C2_AbsentWhenNoneBeforeTimeout ==
    ((AtReturn \/ RuntestRaised) /\ ~obs.trial.inwin)
        => /\ AtReturn
           /\ rt.timedout
           /\ runner.calls = <<"start", "stop", "wait">>
           /\ IsNone(rt.version) /\ IsNone(rt.ret)

\* C3: the results a trial returns were posted by the page that trial's own
\* runner launched, never by the page of an earlier trial.
C3_OwnPageOnly ==
    (AtReturn /\ Iterates(rt.ret))
        => \A j \in DOMAIN rt.ret.recs : rt.ret.recs[j].oid[1] = runner.page

\* C4: if any call of runtest returned absent results, cli returns 1; it
\* returns 0 only if every call returned results.
C4_ExitCodeReflectsAbsence ==
    (pc = "done" /\ obs.absent) => exit = IntVal(1)

\* C5: after the trials of one benchmark and browser, all of them were
\* started, no record of a trial that timed out (and returned absent results)
\* is in the aggregate, and if one did the error flag is set.
C5_TimeoutsContained ==
    pc = "c271"
        => /\ obs.calls[bidx][browser] = Benchmark.number_of_runs
           /\ \A v \in Folded(dzres) : PageOf(v) \notin obs.timedout
           /\ obs.timedout # {} => error

\* C6: after the trials of one benchmark and browser, the aggregate holds,
\* per key, the values of the records the trials returned, in trial order
\* and record order, nothing dropped, duplicated or reordered.
C6_AggregateIsFoldOfOutcomes ==
    pc = "c271" => dzres.tests = obs.expected.tests

\* C7: every measurement in the aggregate of a browser target was posted by
\* a page launched for that browser target.
C7_NoCrossContamination ==
    ~IsNone(dzres) => \A v \in Folded(dzres) : pages[PageOf(v)].browser = browser

\* C8: a disabled benchmark gets no runner, no call of runtest, no aggregate
\* and no call of the publisher, for either browser, and the driver goes on
\* to the next benchmark.
C8_DisabledSkipped ==
    \A b \in DOMAIN benchmarks :
        ~benchmarks[b].enabled =>
            /\ obs.runners[b] = [firefox |-> 0, chrome |-> 0]
            /\ obs.calls[b] = [firefox |-> 0, chrome |-> 0]
            /\ obs.aggs[b] = [firefox |-> 0, chrome |-> 0]
            /\ obs.pubs[b] = [firefox |-> 0, chrome |-> 0]
            /\ \A q \in DOMAIN pages : pages[q].bench # b
            /\ bidx = b => pc \in {"c237", "done"}

C8_Witness ==
    \E b \in DOMAIN benchmarks :
        /\ ~benchmarks[b].enabled
        /\ bidx > b
        /\ pc = "r133"

\* C9: the list runtest returns and the list the channel holds share no
\* object: neither the list itself nor any of its records (deep copy).
C9_NoSharedObject ==
    (AtReturn /\ Iterates(rt.ret) /\ Iterates(results))
        => /\ rt.ret.oid # results.oid
           /\ { rt.ret.recs[j].oid : j \in DOMAIN rt.ret.recs }
                \cap { results.recs[j].oid : j \in DOMAIN results.recs } = {}

\* C10: a failure of the publishing step never stops the driver.
C10_PublishFailureContained ==
    ~(pc = "crashed" /\ crash = "postresults")


\* C11: a postback whose body is not an array of records with the
\* benchmark's fields is treated like absent results: runtest returns
\* (None, None) for it and no exception leaves the fold of cli.
C11_MalformedIsAbsent ==
    /\ ~(pc = "crashed" /\ crash = "fold")
    /\ (AtReturn /\ obs.trial.lastpage # 0 /\ obs.trial.malformed # "")
          => IsNone(rt.ret)

\* The positions of the user agent where Firefox/ or Chrome/ stands followed
\* by a digit or a dot.
MatchingTokens(ua) ==
    { k \in DOMAIN ua :
        \E n \in DOMAIN Patterns :
            /\ StartsWith(ua, k, Patterns[n])
            /\ k + Len(Patterns[n]) <= Len(ua)
            /\ ua[k + Len(Patterns[n])] \in Digits }

HasToken(ua) == MatchingTokens(ua) # {}

\* The text of the leftmost such token: from its first letter to the last
\* character of the digits and dots that follow its slash.
FirstToken(ua) ==
    LET k == CHOOSE k \in MatchingTokens(ua) : \A m \in MatchingTokens(ua) : k <= m
        a == CHOOSE a \in k..Len(ua) : ua[a] = "/" /\ \A m \in k..(a - 1) : ua[m] # "/"
        e == CHOOSE e \in (a + 1)..Len(ua) :
                 /\ \A n \in (a + 1)..e : ua[n] \in Digits
                 /\ e = Len(ua) \/ ua[e + 1] \notin Digits
    IN  SubSeq(ua, k, e)

\* The version a token text carries: what follows its slash.
TokenVersion(g) ==
    LET a == CHOOSE a \in DOMAIN g : g[a] = "/"
    IN  [n \in 1..(Len(g) - a) |-> g[a + n]]

\* C12 as stated: in every outcome of runtest, version is absent only when
\* results is absent.
C12_VersionAbsentOnlyIfResultsAbsent ==
    (AtReturn /\ IsNone(rt.version)) => IsNone(rt.ret)

\* C12 amended: version is absent only when results is absent or the user
\* agent read from the headers has neither token.
C12_VersionAbsentOnlyIfNoToken ==
    (AtReturn /\ IsNone(rt.version)) => (IsNone(rt.ret) \/ ~HasToken(rt.user_agent))

C12_Witness ==
    /\ AtReturn
    /\ IsNone(rt.version)
    /\ ~IsNone(rt.ret)
    /\ ~HasToken(rt.user_agent)

\* C13: when runtest returns results, the version is computed from the user
\* agent of the stored headers alone: the version of its first Firefox/ or
\* Chrome/ token, and absent when it has neither (the results are returned
\* all the same).
C13_VersionFromUserAgent ==
    (AtReturn /\ ~IsNone(rt.ret))
        => /\ rt.hdrpage \in DOMAIN pages
           /\ rt.user_agent \in UserAgents(pages[rt.hdrpage].browser)
           /\ HasToken(rt.user_agent)
                => rt.version = [kind |-> "str", s |-> TokenVersion(FirstToken(rt.user_agent))]
           /\ ~HasToken(rt.user_agent) => IsNone(rt.version)

C13_Witness ==
    /\ AtReturn
    /\ ~IsNone(rt.ret)
    /\ rt.user_agent = UA_Chrome
    /\ rt.version = [kind |-> "str", s |-> << "1", "1", "5", ".", "0", ".", "5", "7", "9", "0", ".", "1", "7", "0" >>]

\* The browser targets the command line configures.
Targets == IF args.chrome_path THEN {"firefox", "chrome"} ELSE {"firefox"}

\* C14: once cli has got past its setup and has ended, runtest was called
\* exactly number_of_runs times for every enabled benchmark and configured
\* browser target, each call produced one outcome, and the pairs began in
\* list order, firefox before chrome.
C14_EveryTrialRuns ==
    (pc \in {"done", "crashed"} /\ bidx > 0)
        => /\ \A b \in DOMAIN benchmarks : \A br \in Targets :
                benchmarks[b].enabled
                    => /\ obs.calls[b][br] = benchmarks[b].number_of_runs
                       /\ obs.outcomes[b][br] = benchmarks[b].number_of_runs
           /\ \A m, n \in DOMAIN obs.order :
                m < n => \/ obs.order[m][1] < obs.order[n][1]
                         \/ /\ obs.order[m][1] = obs.order[n][1]
                            /\ obs.order[m][2] = "firefox"
                            /\ obs.order[n][2] = "chrome"

\* C15: once the wait of a started runner has ended, by a result or by the
\* timeout, runtest calls stop() and then wait(), once each, before it
\* returns.
C15_StopThenWait ==
    /\ pc \in {"r133", "r137"} => runner.calls = <<"start">>
    /\ pc = "r138" => runner.calls = <<"start", "stop">>
    /\ (pc \in {"r140", "r142", "r148", "c262"} \/ RuntestRaised)
          => runner.calls = <<"start", "stop", "wait">>

C15_Witness ==
    /\ pc = "r140"
    /\ rt.timedout
    /\ runner.calls = <<"start", "stop", "wait">>

\* C16: a runner is started only when stop() and wait() of every earlier
\* runner have returned: at most one trial is between start and the return
\* of wait.
C16_TrialsDoNotOverlap ==
    /\ obs.open \in {0, 1}
    /\ pc \in {"c254", "r128", "r129", "r130"} => obs.open = 0

C16_Witness ==
    /\ pc = "r133"
    /\ Len(pages) >= 2
    /\ obs.open = 1

\* C17: cli never ends otherwise than by returning an exit code: no
\* exception leaves it, whether or not a postback arrives.
C17_EndsByReturning ==
    pc # "crashed"

\* C18: a failure of runner.start() does not stop the process.
C18_StartFailureContained ==
    ~(pc = "crashed" /\ crash = "start")

\* C19: when runtest finds a result, the headers it reads are present and
\* were written by the postback whose results it returns.
C19_HeadersOfSamePostback ==
    /\ ~RuntestRaised
    /\ (AtReturn /\ ~IsNone(rt.ret)) => rt.hdrpage = rt.respage

\* C20: when the publisher is called for a pair of which some trial returned
\* results with a version, the version it is given is one of those.
C20_PublishedVersionIsOfPair ==
    (pc = "c271" /\ args.post_results /\ obs.versions # {})
        => version \in obs.versions

====
